---- MODULE Spec2Model ----
(***************************************************************************)
(* Model of the incident triage service (src/app.py): one POST /triage     *)
(* handler that looks an incident up in the ticketing store, asks a        *)
(* language model for a summary, applies the keyword routing rule and      *)
(* writes the notes and routing back with one PATCH.                       *)
(*                                                                         *)
(* Text is a sequence of one-character strings, so that lower(), strip(),  *)
(* the "in" test and the f-string concatenations are computed character by *)
(* character.  "U+2705" stands for the single check-mark character.        *)
(***************************************************************************)
EXTENDS Integers, Sequences, FiniteSets, TLC

VARIABLES
    environ,        \* the SN_PASSWORD entry of the process environment
    SN_PASSWORD,    \* process-wide credential, fixed at import time
    pc,             \* per request: position in triage_incident
    payload,        \* per request: the IncidentPayload received
    inc_sys_id,     \* per request: local of triage_incident
    notes,          \* per request: local of triage_incident
    routing,        \* per request: local of triage_incident
    group_sys_id,   \* per request: local of triage_incident
    user_sys_id,    \* per request: local of triage_incident
    calls,          \* per request: the remote calls made, in order
    sent,           \* per request: the PATCH requests issued, in order
    llm_error,      \* per request: the error the language model answered with
    response,       \* per request: what the caller receives
    store,          \* the remote incident table, by internal identifier
    applied,        \* the PATCH requests the store applied, in order
    unit            \* last direct call of a helper function and its result

vars == <<environ, SN_PASSWORD, pc, payload, inc_sys_id, notes, routing, group_sys_id,
          user_sys_id, calls, sent, llm_error, response, store, applied, unit>>

-----------------------------------------------------------------------------
\* Bounds of the model.

\* Longest result list a lookup answers with.
MaxMatches == 2
\* Longest text, in fragments, handed to decide_routing directly.
MaxPieces == 2

-----------------------------------------------------------------------------
\* Literals of src/app.py.

KW_ENDORSEMENT ==
    <<"e","n","d","o","r","s","e","m","e","n","t">>
KW_ROADSIDE ==
    <<"r","o","a","d","s","i","d","e">>
POLICY_ADMIN_TRIAGE ==
    <<"P","o","l","i","c","y","_","A","d","m","i","n","_","T","r","i","a","g",
      "e">>
WINSTON_DSOUZA ==
    <<"w","i","n","s","t","o","n",".","d","s","o","u","z","a">>
MSG_INCIDENT ==
    <<"I","n","c","i","d","e","n","t"," ">>
MSG_USER ==
    <<"U","s","e","r"," ">>
MSG_GROUP ==
    <<"G","r","o","u","p"," ">>
MSG_NOT_FOUND ==
    <<" ","n","o","t"," ","f","o","u","n","d"," ","i","n"," ","S","e","r","v",
      "i","c","e","N","o","w",".">>
MSG_INCIDENT_SYS_ID ==
    <<"I","n","c","i","d","e","n","t"," ","s","y","s","_","i","d","=">>
MSG_PASSWORD_MISSING ==
    <<"S","N","_","P","A","S","S","W","O","R","D"," ","e","n","v"," ","v","a",
      "r"," ","i","s"," ","m","i","s","s","i","n","g",".">>
MSG_INTERNAL_SERVER_ERROR ==
    <<"I","n","t","e","r","n","a","l"," ","S","e","r","v","e","r"," ","E","r",
      "r","o","r">>
NOTE_AUTO_ROUTING ==
    <<"\n","\n","U+2705"," ","A","u","t","o","-","r","o","u","t","i","n","g",
      ":","\n","-"," ","A","s","s","i","g","n","m","e","n","t"," ","g","r",
      "o","u","p",":"," ">>
NOTE_ASSIGNED_TO ==
    <<"\n","-"," ","A","s","s","i","g","n","e","d"," ","t","o",":"," ">>
INC0010001 ==
    <<"I","N","C","0","0","1","0","0","0","1">>
INC0010002 ==
    <<"I","N","C","0","0","1","0","0","0","2">>
TXT_ENDORSEMENT_CHANGE ==
    <<"n","e","e","d"," ","e","n","d","o","r","s","e","m","e","n","t"," ","c",
      "h","a","n","g","e">>
TXT_PRINTER_ISSUE ==
    <<"p","r","i","n","t","e","r"," ","i","s","s","u","e">>
STATE_IN_PROGRESS == <<"2">>

-----------------------------------------------------------------------------
\* Python string operations.

UPPERCASE ==
    <<"A","B","C","D","E","F","G","H","I","J","K","L","M","N","O","P","Q","R",
      "S","T","U","V","W","X","Y","Z">>
LOWERCASE ==
    <<"a","b","c","d","e","f","g","h","i","j","k","l","m","n","o","p","q","r",
      "s","t","u","v","w","x","y","z">>
WHITESPACE == {" ", "\n", "\t", "\r"}

\* str.lower() on one character.
lower_char(c) ==
    IF \E i \in DOMAIN UPPERCASE : UPPERCASE[i] = c
    THEN LOWERCASE[CHOOSE i \in DOMAIN UPPERCASE : UPPERCASE[i] = c]
    ELSE c

\* str.lower()
lower(s) == [i \in 1..Len(s) |-> lower_char(s[i])]

\* str.strip(): drops leading and trailing whitespace.
strip(s) ==
    LET keep == {i \in 1..Len(s) : s[i] \notin WHITESPACE}
    IN  IF keep = {} THEN <<>>
        ELSE SubSeq(s, CHOOSE i \in keep : \A j \in keep : i <= j,
                       CHOOSE i \in keep : \A j \in keep : i >= j)

\* Python's  sub in text  for strings.
str_in(sub, text) ==
    \E i \in 1..(Len(text) - Len(sub) + 1) :
        SubSeq(text, i, i + Len(sub) - 1) = sub

-----------------------------------------------------------------------------
\* Results of the helpers: a returned value, or a raised HTTPException.

Return(v) == [ok |-> TRUE, value |-> v, status_code |-> 200, detail |-> <<>>]
HTTPException(code, msg) ==
    [ok |-> FALSE, value |-> <<>>, status_code |-> code, detail |-> msg]

\* Variant: answers an empty identifier when nothing matches.
get_sys_id_from_number_empty_on_miss(inc_number, r) ==
    IF r.status_code >= 400 THEN HTTPException(r.status_code, r.text)
    ELSE IF r.result = <<>> THEN Return(<<>>)
         ELSE Return(r.result[1].sys_id)

\* get_sys_id_from_number; r is the answer of requests.get:
\* r.status_code, r.text and the "result" list of r.json().
get_sys_id_from_number(inc_number, r) ==
    IF r.status_code >= 400 THEN HTTPException(r.status_code, r.text)
    ELSE IF r.result = <<>>
         THEN HTTPException(404, MSG_INCIDENT \o inc_number \o MSG_NOT_FOUND)
         ELSE Return(r.result[1].sys_id)

\* Variant: reads the result list before looking at the status.
get_user_sys_id_result_first(username, r) ==
    IF r.result = <<>>
    THEN HTTPException(404, MSG_USER \o username \o MSG_NOT_FOUND)
    ELSE IF r.status_code >= 400 THEN HTTPException(r.status_code, r.text)
         ELSE Return(r.result[1].sys_id)

get_user_sys_id(username, r) ==
    IF r.status_code >= 400 THEN HTTPException(r.status_code, r.text)
    ELSE IF r.result = <<>>
         THEN HTTPException(404, MSG_USER \o username \o MSG_NOT_FOUND)
         ELSE Return(r.result[1].sys_id)

get_group_sys_id(group_name, r) ==
    IF r.status_code >= 400 THEN HTTPException(r.status_code, r.text)
    ELSE IF r.result = <<>>
         THEN HTTPException(404, MSG_GROUP \o group_name \o MSG_NOT_FOUND)
         ELSE Return(r.result[1].sys_id)

\* Variant: joins the two fields without the separating space.
decide_routing_no_separator(short_desc, desc) ==
    LET text == lower(short_desc \o desc)
    IN  IF str_in(KW_ENDORSEMENT, text) \/ str_in(KW_ROADSIDE, text)
        THEN [group_name |-> POLICY_ADMIN_TRIAGE,
              assignee_username |-> WINSTON_DSOUZA]
        ELSE [group_name |-> POLICY_ADMIN_TRIAGE,
              assignee_username |-> <<>>]

\* decide_routing
decide_routing(short_desc, desc) ==
    LET text == lower(short_desc \o <<" ">> \o desc)
    IN  IF str_in(KW_ENDORSEMENT, text) \/ str_in(KW_ROADSIDE, text)
        THEN [group_name |-> POLICY_ADMIN_TRIAGE,
              assignee_username |-> WINSTON_DSOUZA]
        ELSE [group_name |-> POLICY_ADMIN_TRIAGE,
              assignee_username |-> <<>>]

\* Variant: sends assigned_to even when the user identifier is empty.
update_request_clearing_assignee(sys_id, work_notes, group_id, user_id) ==
    LET fields == {"work_notes", "state", "assigned_to"}
                  \cup (IF group_id # <<>> THEN {"assignment_group"} ELSE {})
    IN  [sys_id  |-> strip(lower(sys_id)),
         payload |-> [f \in fields |->
                        CASE f = "work_notes"       -> work_notes
                          [] f = "state"            -> STATE_IN_PROGRESS
                          [] f = "assignment_group" -> group_id
                          [] f = "assigned_to"      -> user_id]]

\* Variant: sends both routing fields whether or not they are empty.
update_request_all_fields(sys_id, work_notes, group_id, user_id) ==
    [sys_id  |-> strip(lower(sys_id)),
     payload |-> [work_notes |-> work_notes, state |-> STATE_IN_PROGRESS,
                  assignment_group |-> group_id, assigned_to |-> user_id]]

\* update_incident, the request it builds: the identifier in the URL
\* (line 147) and the JSON payload (lines 151-159).
update_request(sys_id, work_notes, group_id, user_id) ==
    LET fields == {"work_notes", "state"}
                  \cup (IF group_id # <<>> THEN {"assignment_group"} ELSE {})
                  \cup (IF user_id # <<>> THEN {"assigned_to"} ELSE {})
    IN  [sys_id  |-> strip(lower(sys_id)),
         payload |-> [f \in fields |->
                        CASE f = "work_notes"       -> work_notes
                          [] f = "state"            -> STATE_IN_PROGRESS
                          [] f = "assignment_group" -> group_id
                          [] f = "assigned_to"      -> user_id]]

\* Variant: no special message for 404; every error status is passed through.
update_incident_plain_404(sys_id, work_notes, group_id, user_id, r) ==
    IF r.status_code >= 400
    THEN HTTPException(r.status_code, r.text)
    ELSE Return(r.text)

\* update_incident, its outcome on the answer r of requests.patch.
update_incident(sys_id, work_notes, group_id, user_id, r) ==
    LET id == update_request(sys_id, work_notes, group_id, user_id).sys_id
    IN  IF r.status_code = 404
        THEN HTTPException(404, MSG_INCIDENT_SYS_ID \o id \o MSG_NOT_FOUND)
        ELSE IF r.status_code >= 400
             THEN HTTPException(r.status_code, r.text)
             ELSE Return(r.text)

-----------------------------------------------------------------------------
\* The environment: requests, and what the two remote services can answer.

Requests == {"r1", "r2"}

\* os.getenv("SN_PASSWORD"): unset (None), set to "", or set to a secret.
EnvPasswords ==
    {[set |-> FALSE, value |-> <<>>],
     [set |-> TRUE,  value |-> <<>>],
     [set |-> TRUE,  value |-> <<"p","w">>]}

Payloads ==
    {[number |-> INC0010001, short_description |-> TXT_ENDORSEMENT_CHANGE,
      description |-> <<>>],
     [number |-> INC0010001, short_description |-> TXT_PRINTER_ISSUE,
      description |-> <<>>],
     [number |-> INC0010002, short_description |-> <<"r","o","a","d">>,
      description |-> <<"s","i","d","e">>]}

\* Internal identifiers the store answers with; never empty.
IncidentSysIds == {<<"a","1">>, <<" ","A","1","\n">>, <<"b","2">>}
GroupSysIds == {<<"g","1">>}
UserSysIds == {<<"u","1">>, <<"u","2">>}

Bodies == {<<"d","e","n","i","e","d">>, <<"d","o","w","n">>}
Statuses == {200, 400, 404, 500}

ResultLists(ids) ==
    UNION {[1..n -> {[sys_id |-> i] : i \in ids}] : n \in 0..MaxMatches}

\* Answers of a table query: any status, any body, any result list.
LookupResponses(ids) ==
    {[status_code |-> s, text |-> t, result |-> l] :
        s \in Statuses, t \in Bodies, l \in ResultLists(ids)}

\* Answers of the PATCH.
PatchResponses == {[status_code |-> s, text |-> t] : s \in Statuses, t \in Bodies}

\* Outcomes of client.chat.completions.create: a completion, or an API error
\* raised by the client library with the upstream's status and body.
LLMContents == {<<" ","S","u","m","\n">>, <<"O","k">>}
LLMOutcomes ==
    {[ok |-> TRUE, content |-> c, status_code |-> 200, text |-> <<>>] :
        c \in LLMContents}
    \cup {[ok |-> FALSE, content |-> <<>>, status_code |-> s, text |-> t] :
        s \in {429, 503}, t \in Bodies}

\* The remote incident table, keyed by the identifier used in the PATCH URL.
StoreIds == {strip(lower(i)) : i \in IncidentSysIds}
NewRecord ==
    [work_notes |-> <<>>, state |-> <<"1">>, assignment_group |-> <<>>,
     assigned_to |-> <<>>]

\* Partial update of a record: fields absent from the payload are kept.
StoreApply(rec, fields) ==
    [f \in DOMAIN rec |-> IF f \in DOMAIN fields THEN fields[f] ELSE rec[f]]

-----------------------------------------------------------------------------
\* What the caller receives.

NoResponse ==
    [status_code |-> 0, detail |-> <<>>, status |-> "", incident |-> <<>>,
     sys_id |-> <<>>, assignment_group |-> <<>>, assigned_to |-> <<>>,
     notes |-> <<>>]

\* A raised HTTPException, as the framework renders it.
ErrorResponse(code, msg) ==
    [NoResponse EXCEPT !.status_code = code, !.detail = msg]

\* Any other exception leaving the handler: the framework's plain 500.
UnhandledResponse == ErrorResponse(500, MSG_INTERNAL_SERVER_ERROR)

NoRouting == [group_name |-> <<>>, assignee_username |-> <<>>]
NoError == [status_code |-> 0, text |-> <<>>]
NoUnit == [fn |-> "none"]

\* One remote call as seen on the wire: the service called, whether the
\* helper returned, the status answered, the error body (or, for the language
\* model, the completion), and whether a lookup listed any match.
Call(api, ok, code, text, found) ==
    [api |-> api, ok |-> ok, status_code |-> code, text |-> text,
     found |-> found]
LookupCall(api, out, a) ==
    Call(api, out.ok, a.status_code, IF out.ok THEN <<>> ELSE a.text,
         a.result # <<>>)

\* Variant: a built-in fallback password when the environment has none.
import_password_with_fallback(env) ==
    IF ~env.set \/ env.value = <<>> THEN <<"a","d","m","i","n">> ELSE env.value

\* Lines 14-19: the credential read from the environment; None becomes "".
import_password(env) ==
    IF ~env.set \/ env.value = <<>> THEN <<>> ELSE env.value

-----------------------------------------------------------------------------
\* Module import (lines 12-19) and the idle handler slots.

Init ==
    /\ environ \in EnvPasswords
    /\ SN_PASSWORD = import_password(environ)
    /\ pc = [r \in Requests |-> "idle"]
    /\ payload = [r \in Requests |->
                    [number |-> <<>>, short_description |-> <<>>,
                     description |-> <<>>]]
    /\ inc_sys_id = [r \in Requests |-> <<>>]
    /\ notes = [r \in Requests |-> <<>>]
    /\ routing = [r \in Requests |-> NoRouting]
    /\ group_sys_id = [r \in Requests |-> <<>>]
    /\ user_sys_id = [r \in Requests |-> <<>>]
    /\ calls = [r \in Requests |-> <<>>]
    /\ sent = [r \in Requests |-> <<>>]
    /\ llm_error = [r \in Requests |-> NoError]
    /\ response = [r \in Requests |-> NoResponse]
    /\ store = [i \in StoreIds |-> NewRecord]
    /\ applied = <<>>
    /\ unit = NoUnit

\* The request ends with a raised HTTPException.
Raise(r, exc) ==
    /\ response' = [response EXCEPT ![r] = ErrorResponse(exc.status_code, exc.detail)]
    /\ pc' = [pc EXCEPT ![r] = "done"]

\* triage_incident, lines 227-236: the request arrives; credentials check.
Receive(r) ==
    /\ pc[r] = "idle"
    /\ \E p \in Payloads : payload' = [payload EXCEPT ![r] = p]
    /\ IF SN_PASSWORD = <<>>
       THEN Raise(r, HTTPException(500, MSG_PASSWORD_MISSING))
       ELSE /\ pc' = [pc EXCEPT ![r] = "get_incident"]
            /\ UNCHANGED response
    /\ UNCHANGED <<environ, SN_PASSWORD, inc_sys_id, notes, routing, group_sys_id,
                   user_sys_id, calls, sent, llm_error, store, applied, unit>>

\* triage_incident, line 239.
GetIncident(r) ==
    /\ pc[r] = "get_incident"
    /\ \E a \in LookupResponses(IncidentSysIds) :
         LET out == get_sys_id_from_number(payload[r].number, a)
         IN  /\ calls' = [calls EXCEPT ![r] = Append(@, LookupCall("incident", out, a))]
             /\ IF out.ok
                THEN /\ inc_sys_id' = [inc_sys_id EXCEPT ![r] = out.value]
                     /\ pc' = [pc EXCEPT ![r] = "triage_report"]
                     /\ UNCHANGED response
                ELSE /\ Raise(r, out)
                     /\ UNCHANGED inc_sys_id
    /\ UNCHANGED <<environ, SN_PASSWORD, payload, notes, routing, group_sys_id,
                   user_sys_id, sent, llm_error, store, applied, unit>>

\* triage_report, lines 211-220: the completion, trimmed.
triage_report(o) == strip(o.content)

\* triage_incident, lines 242-250: the summary, then the routing decision.
\* An error of the language-model client is no HTTPException and is caught
\* nowhere, so it leaves the handler as an unhandled exception.
TriageReport(r) ==
    /\ pc[r] = "triage_report"
    /\ \E o \in LLMOutcomes :
         /\ calls' = [calls EXCEPT ![r] =
                        Append(@, Call("llm", o.ok, o.status_code,
                                       IF o.ok THEN o.content ELSE o.text,
                                       FALSE))]
         /\ IF o.ok
            THEN LET d == decide_routing(payload[r].short_description,
                                         payload[r].description)
                 IN  /\ notes' = [notes EXCEPT ![r] = triage_report(o)]
                     /\ routing' = [routing EXCEPT ![r] = d]
                     /\ pc' = [pc EXCEPT ![r] =
                                 IF d.group_name # <<>> THEN "get_group"
                                 ELSE IF d.assignee_username # <<>> THEN "get_user"
                                 ELSE "update"]
                     /\ UNCHANGED <<response, llm_error>>
            ELSE /\ llm_error' = [llm_error EXCEPT ![r] =
                                    [status_code |-> o.status_code, text |-> o.text]]
                 /\ response' = [response EXCEPT ![r] = UnhandledResponse]
                 /\ pc' = [pc EXCEPT ![r] = "done"]
                 /\ UNCHANGED <<notes, routing>>
    /\ UNCHANGED <<environ, SN_PASSWORD, payload, inc_sys_id, group_sys_id, user_sys_id,
                   sent, store, applied, unit>>

\* triage_incident, lines 250-253.
GetGroup(r) ==
    /\ pc[r] = "get_group"
    /\ \E a \in LookupResponses(GroupSysIds) :
         LET out == get_group_sys_id(routing[r].group_name, a)
         IN  /\ calls' = [calls EXCEPT ![r] = Append(@, LookupCall("sys_user_group", out, a))]
             /\ IF out.ok
                THEN /\ group_sys_id' = [group_sys_id EXCEPT ![r] = out.value]
                     /\ pc' = [pc EXCEPT ![r] =
                                 IF routing[r].assignee_username # <<>>
                                 THEN "get_user" ELSE "update"]
                     /\ UNCHANGED response
                ELSE /\ Raise(r, out)
                     /\ UNCHANGED group_sys_id
    /\ UNCHANGED <<environ, SN_PASSWORD, payload, inc_sys_id, notes, routing,
                   user_sys_id, sent, llm_error, store, applied, unit>>

\* Variant: a failed user lookup is swallowed and the update goes ahead
\* without an assignee.
GetUserSwallowingFailure(r) ==
    /\ pc[r] = "get_user"
    /\ \E a \in LookupResponses(UserSysIds) :
         LET out == get_user_sys_id(routing[r].assignee_username, a)
         IN  /\ calls' = [calls EXCEPT ![r] = Append(@, LookupCall("sys_user", out, a))]
             /\ user_sys_id' = [user_sys_id EXCEPT ![r] = out.value]
             /\ pc' = [pc EXCEPT ![r] = "update"]
             /\ UNCHANGED response
    /\ UNCHANGED <<environ, SN_PASSWORD, payload, inc_sys_id, notes, routing,
                   group_sys_id, sent, llm_error, store, applied, unit>>

\* triage_incident, lines 253-254.
GetUser(r) ==
    /\ pc[r] = "get_user"
    /\ \E a \in LookupResponses(UserSysIds) :
         LET out == get_user_sys_id(routing[r].assignee_username, a)
         IN  /\ calls' = [calls EXCEPT ![r] = Append(@, LookupCall("sys_user", out, a))]
             /\ IF out.ok
                THEN /\ user_sys_id' = [user_sys_id EXCEPT ![r] = out.value]
                     /\ pc' = [pc EXCEPT ![r] = "update"]
                     /\ UNCHANGED response
                ELSE /\ Raise(r, out)
                     /\ UNCHANGED user_sys_id
    /\ UNCHANGED <<environ, SN_PASSWORD, payload, inc_sys_id, notes, routing,
                   group_sys_id, sent, llm_error, store, applied, unit>>

\* Variant: the routing block is appended to every summary.
final_notes_always_block(summary, d) ==
    summary \o NOTE_AUTO_ROUTING \o d.group_name
            \o NOTE_ASSIGNED_TO \o d.assignee_username

\* triage_incident, lines 257-258: the notes that are written and returned.
final_notes(summary, d) ==
    IF d.assignee_username # <<>>
    THEN summary \o NOTE_AUTO_ROUTING \o d.group_name
                 \o NOTE_ASSIGNED_TO \o d.assignee_username
    ELSE summary

\* triage_incident, lines 257-270: the notes, the PATCH and the result.
\* The store applies a PATCH it answers with a status below 400.
Update(r) ==
    /\ pc[r] = "update"
    /\ LET n   == final_notes(notes[r], routing[r])
           req == update_request(inc_sys_id[r], n, group_sys_id[r], user_sys_id[r])
       IN  /\ notes' = [notes EXCEPT ![r] = n]
           /\ sent' = [sent EXCEPT ![r] = Append(@, req)]
           /\ \E a \in PatchResponses :
                LET out == update_incident(inc_sys_id[r], n, group_sys_id[r],
                                           user_sys_id[r], a)
                IN  /\ calls' = [calls EXCEPT ![r] =
                               Append(@, Call("patch", out.ok, a.status_code,
                                              IF out.ok THEN <<>> ELSE a.text,
                                              FALSE))]
                    /\ IF out.ok
                       THEN /\ store' = [store EXCEPT ![req.sys_id] =
                                           StoreApply(@, req.payload)]
                            /\ applied' = Append(applied, [by |-> r, req |-> req])
                            /\ response' = [response EXCEPT ![r] =
                                 [status_code |-> 200, detail |-> <<>>,
                                  status |-> "updated",
                                  incident |-> payload[r].number,
                                  sys_id |-> inc_sys_id[r],
                                  assignment_group |-> routing[r].group_name,
                                  assigned_to |-> routing[r].assignee_username,
                                  notes |-> n]]
                            /\ pc' = [pc EXCEPT ![r] = "done"]
                       ELSE /\ Raise(r, out)
                            /\ UNCHANGED <<store, applied>>
    /\ UNCHANGED <<environ, SN_PASSWORD, payload, inc_sys_id, routing, group_sys_id,
                   user_sys_id, llm_error, unit>>

Next ==
    \E r \in Requests :
        \/ Receive(r)
        \/ GetIncident(r)
        \/ TriageReport(r)
        \/ GetGroup(r)
        \/ GetUser(r)
        \/ Update(r)

Spec == Init /\ [][Next]_vars

-----------------------------------------------------------------------------
\* Direct calls of the helper functions, on inputs of bounded size: one call
\* per behaviour, its arguments and result kept in unit.

\* Text fragments: pieces of the two keywords in mixed case, and fillers.
Pieces ==
    {<<"r","o","a","d">>, <<"S","i","d","e">>, <<"E","N","D","O","R","S","E">>,
     <<"m","e","n","t">>, <<"x">>, <<" ">>}

RECURSIVE TextsOf(_)
TextsOf(n) ==
    IF n = 0 THEN {<<>>}
    ELSE LET shorter == TextsOf(n - 1)
         IN  shorter \cup {t \o p : t \in shorter, p \in Pieces}

Texts == TextsOf(MaxPieces)

\* Identifiers looked up, and identifiers answered, in direct calls.
Names == {INC0010001, WINSTON_DSOUZA, POLICY_ADMIN_TRIAGE}
AnySysIds == IncidentSysIds \cup GroupSysIds \cup UserSysIds

UnitInit ==
    /\ environ = [set |-> TRUE, value |-> <<"p","w">>]
    /\ SN_PASSWORD = import_password(environ)
    /\ pc = [r \in Requests |-> "idle"]
    /\ payload = [r \in Requests |->
                    [number |-> <<>>, short_description |-> <<>>,
                     description |-> <<>>]]
    /\ inc_sys_id = [r \in Requests |-> <<>>]
    /\ notes = [r \in Requests |-> <<>>]
    /\ routing = [r \in Requests |-> NoRouting]
    /\ group_sys_id = [r \in Requests |-> <<>>]
    /\ user_sys_id = [r \in Requests |-> <<>>]
    /\ calls = [r \in Requests |-> <<>>]
    /\ sent = [r \in Requests |-> <<>>]
    /\ llm_error = [r \in Requests |-> NoError]
    /\ response = [r \in Requests |-> NoResponse]
    /\ store = [i \in StoreIds |-> NewRecord]
    /\ applied = <<>>
    /\ unit = NoUnit

UnitUnchanged ==
    UNCHANGED <<environ, SN_PASSWORD, pc, payload, inc_sys_id, notes, routing,
                group_sys_id, user_sys_id, calls, sent, llm_error, response,
                store, applied>>

CallDecideRouting ==
    /\ unit = NoUnit
    /\ \E s \in Texts, d \in Texts :
         unit' = [fn |-> "decide_routing", short_desc |-> s, desc |-> d,
                  out |-> decide_routing(s, d)]
    /\ UnitUnchanged

CallGetSysIdFromNumber ==
    /\ unit = NoUnit
    /\ \E n \in Names, a \in LookupResponses(AnySysIds) :
         unit' = [fn |-> "get_sys_id_from_number", name |-> n, answer |-> a,
                  out |-> get_sys_id_from_number(n, a)]
    /\ UnitUnchanged

CallGetUserSysId ==
    /\ unit = NoUnit
    /\ \E n \in Names, a \in LookupResponses(AnySysIds) :
         unit' = [fn |-> "get_user_sys_id", name |-> n, answer |-> a,
                  out |-> get_user_sys_id(n, a)]
    /\ UnitUnchanged

CallGetGroupSysId ==
    /\ unit = NoUnit
    /\ \E n \in Names, a \in LookupResponses(AnySysIds) :
         unit' = [fn |-> "get_group_sys_id", name |-> n, answer |-> a,
                  out |-> get_group_sys_id(n, a)]
    /\ UnitUnchanged

CallUpdateIncident ==
    /\ unit = NoUnit
    /\ \E i \in IncidentSysIds, n \in {<<>>} \cup LLMContents,
          g \in {<<>>} \cup GroupSysIds, u \in {<<>>} \cup UserSysIds,
          a \in PatchResponses :
         unit' = [fn |-> "update_incident", sys_id |-> i, work_notes |-> n,
                  group_sys_id |-> g, user_sys_id |-> u, answer |-> a,
                  req |-> update_request(i, n, g, u),
                  out |-> update_incident(i, n, g, u, a)]
    /\ UnitUnchanged

UnitNext ==
    \/ CallDecideRouting
    \/ CallGetSysIdFromNumber
    \/ CallGetUserSysId
    \/ CallGetGroupSysId
    \/ CallUpdateIncident

UnitSpec == UnitInit /\ [][UnitNext]_vars

-----------------------------------------------------------------------------
\* Properties of the helper functions, checked under UnitSpec.

\* Two characters that are the same letter, case aside.
SameLetter(a, b) ==
    \/ a = b
    \/ \E i \in DOMAIN UPPERCASE : {a, b} = {UPPERCASE[i], LOWERCASE[i]}

\* kw occurs in s, case aside.
OccursIn(kw, s) ==
    \E i \in 1..(Len(s) - Len(kw) + 1) :
        \A j \in 1..Len(kw) : SameLetter(s[i + j - 1], kw[j])

MentionsKeyword(s) == OccursIn(KW_ENDORSEMENT, s) \/ OccursIn(KW_ROADSIDE, s)

\* C3: decide_routing answers for every pair of texts; the assignee is
\* "winston.dsouza" exactly when "endorsement" or "roadside" occurs, case
\* aside, inside short_description or inside description (a keyword split over
\* the two fields does not count) and "" otherwise; the group is always
\* "Policy_Admin_Triage".
C3_RouterRule ==
    unit.fn = "decide_routing" =>
        /\ unit.out.group_name = POLICY_ADMIN_TRIAGE
        /\ unit.out.assignee_username =
             IF MentionsKeyword(unit.short_desc) \/ MentionsKeyword(unit.desc)
             THEN WINSTON_DSOUZA ELSE <<>>

\* A keyword split over the two fields, "road" | "Side": no assignee.
C3_Witness ==
    /\ unit.fn = "decide_routing"
    /\ unit.short_desc = <<"x","r","o","a","d">>
    /\ unit.desc = <<"S","i","d","e">>
    /\ unit.out.assignee_username = <<>>

\* C4: the update sent by update_incident has work_notes equal to the notes
\* given and state "2"; it has assignment_group iff the group identifier is
\* non-empty, assigned_to iff the user identifier is non-empty, and no other
\* field.
C4_UpdateFields ==
    unit.fn = "update_incident" =>
        LET sentFields == DOMAIN unit.req.payload
        IN  /\ {"work_notes", "state"} \subseteq sentFields
            /\ sentFields \subseteq
                 {"work_notes", "state", "assignment_group", "assigned_to"}
            /\ unit.req.payload["work_notes"] = unit.work_notes
            /\ unit.req.payload["state"] = <<"2">>
            /\ ("assignment_group" \in sentFields) <=> (unit.group_sys_id # <<>>)
            /\ ("assigned_to" \in sentFields) <=> (unit.user_sys_id # <<>>)

\* An update with a user identifier and no group identifier.
C4_Witness ==
    /\ unit.fn = "update_incident"
    /\ unit.group_sys_id = <<>>
    /\ unit.user_sys_id # <<>>
    /\ DOMAIN unit.req.payload = {"work_notes", "state", "assigned_to"}

ResolverKind(fn) ==
    CASE fn = "get_sys_id_from_number" -> <<"I","n","c","i","d","e","n","t">>
      [] fn = "get_user_sys_id"        -> <<"U","s","e","r">>
      [] fn = "get_group_sys_id"       -> <<"G","r","o","u","p">>

\* C5: each resolver has three outcomes: a status >= 400 fails with that
\* status and the remote body, whatever the result list holds; a status below
\* 400 with no match fails with 404 and a message naming the identifier looked
\* up and the kind of entity; a status below 400 with a match returns the
\* internal identifier of the first match.
C5_ResolverOutcomes ==
    unit.fn \in {"get_sys_id_from_number", "get_user_sys_id", "get_group_sys_id"} =>
        LET a == unit.answer
            o == unit.out
        IN  /\ a.status_code >= 400 =>
                 ~o.ok /\ o.status_code = a.status_code /\ o.detail = a.text
            /\ a.status_code < 400 /\ Len(a.result) = 0 =>
                 /\ ~o.ok
                 /\ o.status_code = 404
                 /\ str_in(unit.name, o.detail)
                 /\ str_in(ResolverKind(unit.fn), o.detail)
            /\ a.status_code < 400 /\ Len(a.result) >= 1 =>
                 o.ok /\ o.value = Head(a.result).sys_id

\* A user lookup answered with an error status and an empty result list.
C5_Witness ==
    /\ unit.fn = "get_user_sys_id"
    /\ unit.answer.status_code = 500
    /\ unit.answer.result = <<>>
    /\ unit.out.status_code = 500
    /\ unit.out.detail = unit.answer.text

-----------------------------------------------------------------------------
\* Properties of one triage request and of two concurrent ones, checked
\* under Spec.

CallsTo(r, api) == {i \in DOMAIN calls[r] : calls[r][i].api = api}
AppliedBy(r) == {i \in DOMAIN applied : applied[i].by = r}
Updated(r) == pc[r] = "done" /\ response[r].status = "updated"

\* Call i of request r was preceded by a successful call to api.
After(r, i, api) == \E j \in CallsTo(r, api) : j < i /\ calls[r][j].ok

\* C1: a request issues the PATCH at most once, and only after the incident
\* lookup, the summary, the group lookup and (for a non-empty routed assignee)
\* the user lookup succeeded; once one of those steps failed, the request
\* has written nothing.
C1_WriteOnceAfterReads ==
    \A r \in Requests :
        /\ Cardinality(CallsTo(r, "patch")) <= 1
        /\ Len(sent[r]) = Cardinality(CallsTo(r, "patch"))
        /\ \A i \in CallsTo(r, "patch") :
             /\ After(r, i, "incident")
             /\ After(r, i, "llm")
             /\ After(r, i, "sys_user_group")
             /\ routing[r].assignee_username # <<>> => After(r, i, "sys_user")
        /\ (\E j \in DOMAIN calls[r] : calls[r][j].api # "patch" /\ ~calls[r][j].ok) =>
             /\ CallsTo(r, "patch") = {}
             /\ sent[r] = <<>>
             /\ AppliedBy(r) = {}

\* A request routed to an assignee has finished with its one PATCH applied.
C1_Witness ==
    /\ Updated("r1")
    /\ routing["r1"].assignee_username = WINSTON_DSOUZA
    /\ Len(calls["r1"]) = 5
    /\ Cardinality(AppliedBy("r1")) = 1

\* C2: with SN_PASSWORD unset or empty in the environment, every request
\* fails at once with status 500 and no remote call at all is made.
C2_NoPasswordNoCalls ==
    (~environ.set \/ environ.value = <<>>) =>
        /\ applied = <<>>
        /\ \A r \in Requests :
             /\ calls[r] = <<>>
             /\ sent[r] = <<>>
             /\ pc[r] \in {"idle", "done"}
             /\ pc[r] = "done" => /\ response[r].status_code = 500
                                  /\ response[r].status # "updated"

\* A request received while SN_PASSWORD is unset has been answered 500.
C2_Witness ==
    /\ ~environ.set
    /\ pc["r1"] = "done"
    /\ response["r1"].status_code = 500
    /\ calls["r1"] = <<>>

\* C6: when the incident lookup lists no match, the request ends with 404
\* and a message naming the incident number, and nothing else runs: no call
\* to the language model, no group or user lookup, no PATCH.
C6_IncidentNotFound ==
    \A r \in Requests :
        (/\ Len(calls[r]) >= 1
         /\ calls[r][1].api = "incident"
         /\ calls[r][1].status_code < 400
         /\ ~calls[r][1].found) =>
            /\ pc[r] = "done"
            /\ response[r].status_code = 404
            /\ str_in(payload[r].number, response[r].detail)
            /\ Len(calls[r]) = 1
            /\ sent[r] = <<>>
            /\ AppliedBy(r) = {}

\* The lookup of INC0010001 listed nothing and the request was answered 404.
C6_Witness ==
    /\ payload["r2"].number = INC0010001
    /\ Len(calls["r2"]) = 1
    /\ calls["r2"][1].status_code = 200
    /\ ~calls["r2"][1].found
    /\ response["r2"].status_code = 404

\* C7: when the store answers the PATCH with a status >= 400 the request
\* fails and never reports "updated": 404 becomes a 404 naming the
\* lower-cased, trimmed record identifier, any other status is passed on with
\* the store's body; the language model was called exactly once and the PATCH
\* is not repeated.
C7_UpdateRejected ==
    \A r \in Requests :
        \A i \in CallsTo(r, "patch") :
            calls[r][i].status_code >= 400 =>
                /\ pc[r] = "done"
                /\ response[r].status # "updated"
                /\ IF calls[r][i].status_code = 404
                   THEN /\ response[r].status_code = 404
                        /\ response[r].detail =
                             MSG_INCIDENT_SYS_ID \o strip(lower(inc_sys_id[r]))
                                                 \o MSG_NOT_FOUND
                   ELSE /\ response[r].status_code = calls[r][i].status_code
                        /\ response[r].detail = calls[r][i].text
                /\ Cardinality(CallsTo(r, "llm")) = 1
                /\ CallsTo(r, "patch") = {Len(calls[r])}
                /\ Len(sent[r]) = 1
                /\ AppliedBy(r) = {}

\* The PATCH of record " A1\n" was answered 404; the failure names "a1".
C7_Witness ==
    /\ inc_sys_id["r1"] = <<" ","A","1","\n">>
    /\ Len(calls["r1"]) >= 1
    /\ calls["r1"][Len(calls["r1"])].api = "patch"
    /\ calls["r1"][Len(calls["r1"])].status_code = 404
    /\ response["r1"].detail = MSG_INCIDENT_SYS_ID \o <<"a","1">> \o MSG_NOT_FOUND

\* C8: when the language-model call fails, the caller receives the
\* upstream's status and body, and the request makes no group or user lookup
\* and no PATCH.
C8_LLMFailureSurfaced ==
    \A r \in Requests :
        llm_error[r] # NoError =>
            /\ pc[r] = "done"
            /\ response[r].status_code = llm_error[r].status_code
            /\ response[r].detail = llm_error[r].text
            /\ CallsTo(r, "sys_user_group") = {}
            /\ CallsTo(r, "sys_user") = {}
            /\ CallsTo(r, "patch") = {}

\* The summary the language model produced for request r, trimmed.
SummaryOf(r) == strip(calls[r][CHOOSE i \in CallsTo(r, "llm") : TRUE].text)

\* C9: in a successful request the notes sent in the PATCH are the notes
\* returned; they are the summary followed by the Auto-routing block naming
\* group and assignee exactly when the routed assignee is non-empty, and the
\* bare summary otherwise, in which case no user is looked up, the PATCH has
\* only work_notes, state and assignment_group, and assigned_to is returned
\* empty.
C9_NotesWrittenAndReturned ==
    \A r \in Requests :
        Updated(r) =>
            /\ Len(sent[r]) = 1
            /\ sent[r][1].payload["work_notes"] = response[r].notes
            /\ IF routing[r].assignee_username # <<>>
               THEN response[r].notes =
                        SummaryOf(r) \o NOTE_AUTO_ROUTING \o routing[r].group_name
                                     \o NOTE_ASSIGNED_TO
                                     \o routing[r].assignee_username
               ELSE /\ response[r].notes = SummaryOf(r)
                    /\ CallsTo(r, "sys_user") = {}
                    /\ DOMAIN sent[r][1].payload =
                         {"work_notes", "state", "assignment_group"}
                    /\ response[r].assigned_to = <<>>

\* "printer issue" was triaged: bare summary, no user lookup.
C9_Witness ==
    /\ Updated("r2")
    /\ payload["r2"].short_description = TXT_PRINTER_ISSUE
    /\ response["r2"].notes = <<"S","u","m">>
    /\ response["r2"].assigned_to = <<>>

AUTO_ROUTING == <<"A","u","t","o","-","r","o","u","t","i","n","g">>

\* C10: when two requests on the same record both succeed, each applied one
\* update; the record ends with the notes of the update applied last and
\* state "2", and when the last writer's routed assignee is empty,
\* assigned_to keeps what the earlier request wrote.
C10_LastWriterWins ==
    (/\ Updated("r1")
     /\ Updated("r2")
     /\ sent["r1"][1].sys_id = sent["r2"][1].sys_id) =>
        LET rec   == store[sent["r1"][1].sys_id]
            first == applied[1].by
            last  == applied[Len(applied)].by
        IN  /\ \A r \in Requests : Cardinality(AppliedBy(r)) = 1 /\ Len(sent[r]) = 1
            /\ first # last
            /\ rec.work_notes = response[last].notes
            /\ rec.state = <<"2">>
            /\ routing[last].assignee_username = <<>> =>
                 rec.assigned_to = user_sys_id[first]

\* The record is assigned to a user by the earlier request while its final
\* notes, written by the later one, carry no Auto-routing block.
C10_Witness ==
    /\ Updated("r1")
    /\ Updated("r2")
    /\ payload["r1"].number = payload["r2"].number
    /\ sent["r1"][1].sys_id = sent["r2"][1].sys_id
    /\ store[sent["r1"][1].sys_id].assigned_to \in UserSysIds
    /\ ~str_in(AUTO_ROUTING, store[sent["r1"][1].sys_id].work_notes)
    /\ store[sent["r1"][1].sys_id].work_notes # <<>>

====
